---- MODULE Spec2Model ----
(***************************************************************************)
(* The ReAct control loop of the Vietnamese-stock agent:                   *)
(*   src/src/agent/infra/agents/langgraph_workflow.py  (ReActWorkflow)     *)
(*   src/src/agent/domain/agents/react_agent.py        (StockReActAgent)   *)
(*   src/src/agent/domain/tools/base.py                (CustomBaseTool)    *)
(*   src/src/agent/domain/tools/stock_data_tool.py     (StockPriceTool)    *)
(* Texts are modelled by the features the code inspects (marker, fenced    *)
(* block, JSON shape); Python exceptions by their class.                   *)
(***************************************************************************)
EXTENDS Integers, Sequences, FiniteSets, TLC

VARIABLES
    pc,                    \* node the graph executes next, or "done"
    messages,              \* AgentState.messages
    tools_used,            \* AgentState.tools_used
    intermediate_results,  \* AgentState.intermediate_results
    plan,                  \* AgentState.plan
    sub_goals,             \* AgentState.sub_goals
    reflection_notes,      \* AgentState.reflection_notes
    tool_output,           \* AgentState.tool_output (status of the last ToolResult)
    final_answer,          \* AgentState.final_answer
    reflection_decision,   \* AgentState.reflection_decision
    current_step,          \* AgentState.current_step
    result,                \* the record run() returns
    trace,                 \* observation log: calls made to collaborators, faults taken
    call,                  \* arguments of a direct call of the dispatcher
    ret,                   \* what that call returned
    store,                 \* the session manager's sessions and cached analyses
    served                 \* observation log of the analysis service

vars == <<pc, messages, tools_used, intermediate_results, plan, sub_goals,
          reflection_notes, tool_output, final_answer, reflection_decision,
          current_step, result, trace, call, ret, store, served>>

(***************************************************************************)
(* Bounds of the model and constants of the program                        *)
(***************************************************************************)
\* run() builds every AgentState with max_steps=10
MaxSteps == 10

\* turns of one modelled run that are neither a plain text turn nor the last
\* turn of the run (tool dispatches, unusable texts, retry / re-plan verdicts),
\* and the number of first steps of a run in which they happen
MaxEvents == 2

EventWindow == 2

\* analyze asks for cached analyses with cache_ttl=300
CacheTtl == 300

\* RedisSettings.default_ttl, which the session manager is built with
DefaultTtl == 3600

\* seconds one step of the clock takes, the last instant modelled, and the
\* number of calls made to the service and the session manager
TimeStep == 150

MaxTime == 450

MaxOps == 3

MayDeviate(events, step) == events < MaxEvents /\ step < EventWindow

None == "<None>"

Truthy(v) == v # None /\ v # ""

(***************************************************************************)
(* Tool registry and input schemas                                         *)
(***************************************************************************)
\* keys of ReActWorkflow.TOOL_INPUT_MODELS
ToolNames == {"chat_llm", "fundamental_analysis", "industry_analysis",
              "peers_comparison", "rag_knowledge", "stock_price", "tavily_search"}

\* the tools dictionary handed to the agent and to the workflow
Registered ==
    {"rag_knowledge", "tavily_search", "chat_llm", "stock_price",
     "fundamental_analysis", "industry_analysis", "peers_comparison"}

\* a name no tool carries, and a tool name that is not a string
UnknownTool == "not_a_tool"
NonStringName == "<non-str>"

\* required fields of each Pydantic input model
Required(tool) ==
    CASE tool = "chat_llm"             -> {"messages"}
      [] tool = "fundamental_analysis" -> {"symbols"}
      [] tool = "industry_analysis"    -> {"symbol"}
      [] tool = "peers_comparison"     -> {"symbols"}
      [] tool = "rag_knowledge"        -> {"query"}
      [] tool = "stock_price"          -> {"symbols"}
      [] tool = "tavily_search"        -> {"query"}

\* all fields of each input model (other keys of the object are ignored)
ModelFields(tool) ==
    IF tool = "stock_price"
    THEN {"symbols", "data_type", "start_date", "end_date"}
    ELSE Required(tool)

\* StockPriceToolInput.data_type: str = Field("realtime", ...)
DataTypeDefault == "realtime"

(***************************************************************************)
(* A tool input as the JSON text the action node hands to the dispatcher.  *)
(*   json      what json.loads makes of the text                           *)
(*   present   keys of the object                                          *)
(*   illtyped  keys whose value has a type the schema rejects              *)
(*   data_type value of the data_type key ("-" when absent)                *)
(*   symbols   "many" when the symbols key names two symbols or more,      *)
(*             "one" when it names a single one                            *)
(***************************************************************************)
NoInput ==
    [json |-> "-", present |-> {}, illtyped |-> {}, data_type |-> "-", symbols |-> "many"]

NonObject(j) ==
    [json |-> j, present |-> {}, illtyped |-> {}, data_type |-> "-", symbols |-> "many"]

Object(p, t, d) ==
    [json |-> "object", present |-> p, illtyped |-> t, data_type |-> d, symbols |-> "many"]

SingleSymbol(input) == [input EXCEPT !.symbols = "one"]

\* a result record of the dispatcher: the keys status, error, tool_name and
\* data of the dictionary (has_error: the key error is there; tool_name is
\* None when the dictionary has no such key); raised = TRUE stands for an
\* exception leaving _execute_tool_safely
ErrorRecord(msg, name) ==
    [raised |-> FALSE, status |-> "error", has_error |-> TRUE, error |-> msg,
     tool_name |-> name, data |-> "-", provider_called |-> FALSE]

Escaped(cls) ==
    [raised |-> TRUE, status |-> "-", has_error |-> FALSE, error |-> cls,
     tool_name |-> "-", data |-> "-", provider_called |-> FALSE]

\* validation inside StockPriceTool._execute_impl
ValidateParameters(args) ==
    /\ args.data_type \in {"realtime", "historical"}
    /\ args.data_type = "historical" => (args.start_date /\ args.end_date)

\* StockPriceTool._execute_impl: the whole body is inside try/except and the
\* handler returns an empty result, so it never raises
StockPriceExecuteImpl(args, exec) ==
    IF ~ValidateParameters(args)
    THEN [raises |-> FALSE, data |-> "empty", provider_called |-> FALSE]
    ELSE IF exec = "provider_raises"
         THEN [raises |-> FALSE, data |-> "empty", provider_called |-> TRUE]
         ELSE [raises |-> FALSE, data |-> "payload", provider_called |-> TRUE]

\* PeersComparisonTool._validate_parameters
ValidatePeers(args) == args.symbols = "many"

\* _execute_impl of the other tools: a provider fault is caught inside and
\* gives empty data, and so is the ValueError of PeersComparisonTool's
\* validation; exec = "impl_raises" is a fault outside that try
ExecuteImpl(tool, args, exec) ==
    IF tool = "stock_price"
    THEN StockPriceExecuteImpl(args, exec)
    ELSE IF tool = "peers_comparison" /\ ~ValidatePeers(args)
    THEN [raises |-> FALSE, data |-> "empty", provider_called |-> FALSE]
    ELSE IF exec = "impl_raises"
         THEN [raises |-> TRUE, data |-> "-", provider_called |-> FALSE]
         ELSE IF exec = "provider_raises"
              THEN [raises |-> FALSE, data |-> "empty", provider_called |-> TRUE]
              ELSE [raises |-> FALSE, data |-> "payload", provider_called |-> TRUE]

\* CustomBaseTool._arun: wraps the outcome in a ToolResult.  ToolState has no
\* error field, so the message of the fault is not in the metadata.
Arun(tool, args, exec) ==
    LET r == ExecuteImpl(tool, args, exec)
    IN  IF r.raises
        THEN [raised |-> FALSE, status |-> "error", has_error |-> FALSE,
              error |-> "-", tool_name |-> None, data |-> "empty",
              provider_called |-> r.provider_called]
        ELSE [raised |-> FALSE, status |-> "success", has_error |-> FALSE,
              error |-> "-", tool_name |-> None, data |-> r.data,
              provider_called |-> r.provider_called]

\* input_model_class(**input_data).dict(): defaults filled in
BoundArgs(tool, input) ==
    [data_type  |-> IF "data_type" \in input.present THEN input.data_type
                    ELSE DataTypeDefault,
     start_date |-> "start_date" \in input.present,
     end_date   |-> "end_date" \in input.present,
     symbols    |-> input.symbols]

\* the first exception the try block of _execute_tool_safely raises, or "none"
DispatchFault(tool_name, input) ==
    IF tool_name \notin Registered THEN "KeyError"
    ELSE IF tool_name \notin ToolNames THEN "ValueError"
    ELSE IF input.json = "nonstr" THEN "TypeError"
    ELSE IF input.json = "invalid" THEN "JSONDecodeError"
    ELSE IF input.json # "object" THEN "TypeError"
    ELSE IF ~(Required(tool_name) \subseteq input.present) THEN "ValidationError"
    ELSE IF input.illtyped \cap ModelFields(tool_name) # {} THEN "ValidationError"
    ELSE "none"

\* the except clauses of _execute_tool_safely, in order
MutCatchValueErrorOnly(cls, tool_name) ==
    IF cls = "JSONDecodeError" THEN ErrorRecord("Invalid JSON input", tool_name)
    ELSE IF cls \in {"ValueError", "ValidationError"}
         THEN ErrorRecord("Input validation failed", tool_name)
         ELSE Escaped(cls)

Catch(cls, tool_name) ==
    IF cls = "JSONDecodeError" THEN ErrorRecord("Invalid JSON input", tool_name)
    ELSE IF cls \in {"ValueError", "ValidationError"}
         THEN ErrorRecord("Input validation failed", tool_name)
         ELSE ErrorRecord(cls, tool_name)

\* ReActWorkflow._execute_tool_safely
ExecuteToolSafely(tool_name, input, exec) ==
    IF tool_name = NonStringName
    THEN ErrorRecord("Invalid tool_name type", tool_name)
    ELSE LET f == DispatchFault(tool_name, input)
         IN  IF f # "none"
             THEN Catch(f, tool_name)
             ELSE Arun(tool_name, BoundArgs(tool_name, input), exec)

(***************************************************************************)
(* Texts of the Reasoner.                                                  *)
(*   body    "text", or "error" for the 'Error: ...' text reason() makes   *)
(*   marker  "none": no 'FINAL ANSWER' in the text; "word": the words are  *)
(*           there but the pattern '**FINAL ANSWER**:' does not match;     *)
(*           "pattern": the pattern matches                                *)
(*   after   what follows the matched pattern: "nothing" (white space at   *)
(*           most, up to the end of the text), "line" (one line of text)   *)
(*           or "lines" (several lines)                                    *)
(*   block   "none", "unusable" (a fenced block parse_tool_usage rejects)  *)
(*           or "action" (a fenced block with action and input)            *)
(***************************************************************************)
Text(b, m, a, k, act, inp) ==
    [body |-> b, marker |-> m, after |-> a, block |-> k, action |-> act,
     input |-> inp]

NoText == Text("-", "-", "-", "-", "-", NoInput)

\* reason(): the text f"Error: {str(e)}"
ErrorText == Text("error", "none", "-", "none", "-", NoInput)

\* a response whose content is not text (None)
NonText == Text("nontext", "-", "-", "-", "-", NoInput)

PlainText == Text("text", "none", "-", "none", "-", NoInput)

ActionText(tool, inp) == Text("text", "none", "-", "action", tool, inp)

\* the tools and inputs the modelled Reasoner asks for
StockInputs ==
    {Object({"symbols", "data_type"}, {}, "realtime"), Object({"data_type"}, {}, "realtime")}

SearchInputs == {Object({"query"}, {}, "-")}

ActionTexts ==
    {ActionText("stock_price", i) : i \in StockInputs}
        \cup {ActionText("tavily_search", i) : i \in SearchInputs}

\* texts after which the run goes on with another turn
LoopTexts ==
    ActionTexts \cup
    {Text("text", "none", "-", "unusable", "-", NoInput),
     Text("text", "word", "-", "none", "-", NoInput),
     Text("text", "pattern", "nothing", "none", "-", NoInput),
     Text("text", "pattern", "nothing", "action", "stock_price",
          Object({"symbols", "data_type"}, {}, "realtime"))}

\* texts that carry a final answer
FinalTexts ==
    {Text("text", "pattern", "line", "none", "-", NoInput),
     Text("text", "pattern", "lines", "none", "-", NoInput),
     Text("text", "pattern", "line", "action", "tavily_search",
          Object({"query"}, {}, "-"))}

\* what chat_provider.chat does when the Reasoner calls it
ReasonerResponses ==
    {[kind |-> "text", text |-> t] : t \in {PlainText} \cup LoopTexts \cup FinalTexts}
        \cup {[kind |-> k, text |-> NoText] : k \in {"raise", "empty", "nontext"}}

\* reason() without its except branch: the fault reaches the reasoning node
MutReasonLetsFaultThrough(resp) ==
    CASE resp.kind = "text" -> resp.text
      [] OTHER              -> NonText

\* StockReActAgent.reason
Reason(resp) ==
    CASE resp.kind = "text"    -> resp.text
      [] resp.kind = "nontext" -> NonText
      [] OTHER                 -> ErrorText

\* re.search(r"\*\*FINAL ANSWER\*\*:\s*(.*?)(?=\n|$)", ...).group(1).strip()
ExtractFinalAnswer(text) ==
    CASE text.after = "nothing" -> ""
      [] text.after = "line"    -> "answer"
      [] text.after = "lines"   -> "first line of answer"

(***************************************************************************)
(* The first ```json block of a text, as parse_tool_usage sees it.         *)
(*   fence   "found" when the pattern ```json\n...\n``` matches            *)
(*   json    what json.loads makes of the block: "invalid", "scalar",      *)
(*           "list" or "dict"                                              *)
(*   keys    top-level keys of the object                                  *)
(*   action  the value under action: "str" (a non-empty string), "empty"   *)
(*           (the string ''), "number", "null", "list" (a list whose first *)
(*           element is a non-empty string), "empty_list" or "list_other"  *)
(*           (a list whose first element is no string)                     *)
(*   name    the string, or the first element of the list                  *)
(*   input   the value under input                                         *)
(***************************************************************************)
Block(fence, json, keys, action, name, input) ==
    [fence |-> fence, json |-> json, keys |-> keys, action |-> action,
     name |-> name, input |-> input]

NoBlock == Block("none", "-", {}, "-", "-", NoInput)

\* the block of a Reasoner text
FencedBlock(text) ==
    CASE text.block = "action"   ->
            Block("found", "dict", {"action", "input"}, "str", text.action, text.input)
      [] text.block = "unusable" -> Block("found", "invalid", {}, "-", "-", NoInput)
      [] OTHER                   -> NoBlock

\* StockReActAgent.parse_tool_usage
NoAction == [raised |-> FALSE, found |-> FALSE, tool_name |-> "-", tool_input |-> NoInput]

\* tool_name after the list / tuple step: None when nothing usable is there
ResolvedName(b) ==
    CASE b.action \in {"str", "list"} -> b.name
      [] b.action = "empty"           -> ""
      [] OTHER                        -> None

MutParseBlockNoRegistryCheck(b) ==
    IF b.fence # "found" THEN NoAction
    ELSE IF b.json = "invalid" THEN NoAction
    ELSE IF b.json # "dict" \/ "action" \notin b.keys \/ "input" \notin b.keys
         THEN NoAction
    ELSE IF b.action \notin {"str", "list"} THEN NoAction
    ELSE [raised |-> FALSE, found |-> TRUE, tool_name |-> ResolvedName(b),
          tool_input |-> b.input]

ParseBlock(b) ==
    IF b.fence # "found" THEN NoAction
    ELSE IF b.json = "invalid" THEN NoAction
    ELSE IF b.json # "dict" \/ "action" \notin b.keys \/ "input" \notin b.keys
         THEN NoAction
    ELSE IF b.action \notin {"str", "list"} THEN NoAction
    ELSE IF ResolvedName(b) \notin Registered THEN NoAction
    ELSE [raised |-> FALSE, found |-> TRUE, tool_name |-> ResolvedName(b),
          tool_input |-> b.input]

ParseToolUsage(text) == ParseBlock(FencedBlock(text))

\* StockReActAgent.format_tool_result
FormatToolResult(tool_name, r) ==
    IF r.status = "error"
    THEN [fmt |-> "Tool failed", tool |-> tool_name,
          detail |-> IF r.has_error THEN r.error ELSE "Unknown error"]
    ELSE [fmt |-> CASE tool_name = "stock_price"   -> "Stock price data"
                    [] tool_name = "rag_knowledge" -> "Knowledge context"
                    [] tool_name = "tavily_search" -> "Search results"
                    [] tool_name \in {"fundamental_analysis", "industry_analysis",
                                      "peers_comparison"} -> "Analysis data"
                    [] tool_name = "chat_llm"      -> "LLM response"
                    [] OTHER                       -> "str(data)",
          tool |-> tool_name, detail |-> r.data]

NoObs == [fmt |-> "-", tool |-> "-", detail |-> "-"]

(***************************************************************************)
(* Messages                                                                *)
(***************************************************************************)
Msg(role, kind, text, obs, str) ==
    [role |-> role, kind |-> kind, text |-> text, obs |-> obs, str |-> str]

HumanMessage == Msg("human", "query", NoText, NoObs, "query")
AIText(t) == Msg("ai", "llm", t, NoObs, "-")
AIObservation(o) == Msg("ai", "observation", NoText, o, "-")
AINote(kind, s) == Msg("ai", kind, NoText, NoObs, s)

ErrorAnswer == "Error: ..."

Last(s) == s[Len(s)]

(***************************************************************************)
(* The record run() returns, and the observation log                       *)
(***************************************************************************)
NoResult ==
    [returned |-> FALSE, answer |-> None, success |-> FALSE, steps |-> 0,
     tools_used |-> <<>>, intermediate_results |-> <<>>, plan |-> "",
     sub_goals |-> <<>>, reflection_notes |-> <<>>]

NoTrace ==
    [reasoner |-> 0, dispatcher |-> 0, reflector |-> 0, finalizer |-> 0,
     events |-> 0, fault |-> "none"]

NoCall == [tool_name |-> "-", input |-> NoInput, exec |-> "-"]

NoRet == ErrorRecord("-", "-")

\* no session manager takes part in a run of the graph on its own
NoStore == [manager |-> "-", now |-> 0]

NoneServed == [ops |-> 0, runs |-> 0]

\* ReActWorkflow.run, up to the start of the graph
Init ==
    /\ pc = "reasoning"
    /\ messages = <<HumanMessage>>
    /\ tools_used = <<>>
    /\ intermediate_results = <<>>
    /\ plan = ""
    /\ sub_goals = <<>>
    /\ reflection_notes = <<>>
    /\ tool_output = None
    /\ final_answer = None
    /\ reflection_decision = "continue"
    /\ current_step = 0
    /\ result = NoResult
    /\ trace = NoTrace
    /\ call = NoCall
    /\ ret = NoRet
    /\ store = NoStore
    /\ served = NoneServed

(***************************************************************************)
(* Nodes of the graph                                                      *)
(***************************************************************************)
DefaultPlan == "Generate plan to answer user query using available tools."

DefaultSubGoals == <<"Identify relevant tools", "Execute tools", "Synthesize results">>

\* a response after which the run takes another turn with a different history
IsEvent(resp) == ~(resp.kind = "text" /\ resp.text \in {PlainText} \cup FinalTexts)
                 /\ resp.kind # "nontext"

\* ReActWorkflow._reasoning_node.node, the chat collaborator answering resp
ReasoningWith(resp) ==
    /\ pc = "reasoning"
    /\ IsEvent(resp) => MayDeviate(trace.events, current_step)
    /\ LET content == Reason(resp)
           counted == [trace EXCEPT !.reasoner = @ + 1,
                                    !.events = IF IsEvent(resp) THEN @ + 1 ELSE @]
       IN  IF content = NonText
           THEN \* AIMessage(content=None) raises: the except branch
                /\ messages' = Append(messages, AINote("error", "Error in reasoning"))
                /\ current_step' = current_step + 1
                /\ final_answer' = ErrorAnswer
                /\ reflection_decision' = "end"
                /\ trace' = [counted EXCEPT !.fault = "reasoning"]
                /\ UNCHANGED <<plan, sub_goals>>
           ELSE /\ plan' = IF plan # "" THEN plan ELSE DefaultPlan
                /\ sub_goals' = IF sub_goals # <<>> THEN sub_goals ELSE DefaultSubGoals
                /\ messages' = Append(messages, AIText(content))
                /\ IF content.marker = "pattern"
                   THEN /\ final_answer' = ExtractFinalAnswer(content)
                        /\ reflection_decision' = "end"
                   ELSE UNCHANGED <<final_answer, reflection_decision>>
                /\ trace' = counted
                /\ UNCHANGED current_step
    /\ pc' = "action"
    /\ UNCHANGED <<tools_used, intermediate_results, reflection_notes, tool_output,
                   result, call, ret>>
    /\ UNCHANGED <<store, served>>

ReasoningNode == \E resp \in ReasonerResponses : ReasoningWith(resp)

\* the entry the action node appends to intermediate_results
MutEntryNameFromResult(llm_response, formatted, tool_name, tool_result) ==
    [llm_output |-> llm_response, observation |-> formatted,
     tool_name |-> tool_result.tool_name,
     success |-> tool_result.status = "success"]

ResultEntry(llm_response, formatted, tool_name, tool_result) ==
    [llm_output |-> llm_response, observation |-> formatted,
     tool_name |-> tool_name,
     success |-> tool_result.status = "success"]

\* what the tool's execution can do once the dispatcher reaches it
ExecOutcomes(tool_name, input) ==
    IF DispatchFault(tool_name, input) # "none" THEN {"ok"}
    ELSE IF tool_name = "stock_price" THEN {"ok", "provider_raises"}
    ELSE {"ok", "impl_raises"}

\* ReActWorkflow._action_node (nothing inside its try block raises: the
\* parser, the dispatcher and the formatter catch their own faults)
ActionNode ==
    /\ pc = "action"
    /\ IF Truthy(final_answer)
       THEN /\ reflection_decision' = "end"
            /\ UNCHANGED <<messages, tools_used, intermediate_results, tool_output,
                           current_step, trace>>
       ELSE LET llm_response == Last(messages).text
                parsed == ParseToolUsage(llm_response)
            IN  IF parsed.found
                THEN \E exec \in ExecOutcomes(parsed.tool_name, parsed.tool_input) :
                       LET tool_result == ExecuteToolSafely(parsed.tool_name,
                                                            parsed.tool_input, exec)
                           formatted == FormatToolResult(parsed.tool_name, tool_result)
                       IN  /\ intermediate_results' =
                                Append(intermediate_results,
                                       ResultEntry(llm_response, formatted,
                                                   parsed.tool_name, tool_result))
                           /\ tools_used' = Append(tools_used, parsed.tool_name)
                           /\ messages' = Append(messages, AIObservation(formatted))
                           /\ current_step' = current_step + 1
                           /\ tool_output' = tool_result.status
                           /\ trace' = [trace EXCEPT !.dispatcher = @ + 1]
                           /\ UNCHANGED reflection_decision
                ELSE /\ messages' = Append(messages,
                                           AINote("no_action", "No valid tool action found"))
                     /\ current_step' = current_step + 1
                     /\ reflection_decision' =
                            IF Truthy(final_answer) THEN "end" ELSE "continue"
                     /\ UNCHANGED <<tools_used, intermediate_results, tool_output, trace>>
    /\ pc' = "reflection"
    /\ UNCHANGED <<plan, sub_goals, reflection_notes, final_answer, result, call, ret>>
    /\ UNCHANGED <<store, served>>

(***************************************************************************)
(* The Reflector's collaborator.                                           *)
(*   wrap  "bare", "fenced" (```json ... ``` or ``` ... ``` on their own   *)
(*         lines) or "prose" (text around the verdict)                     *)
(*   json  what json.loads makes of the cleaned text: "invalid", "scalar"  *)
(*         (a number, null), "list" or "dict"                              *)
(***************************************************************************)
VerdictKeys == {"decision", "reason", "updated_plan"}

Verdict(w, j, keys, d, up) ==
    [wrap |-> w, json |-> j, keys |-> keys, decision |-> d, updated_plan |-> up]

ReflectorTexts ==
    {Verdict(w, j, {}, "-", "") : w \in {"bare", "prose"}, j \in {"invalid", "scalar", "list"}}
        \cup {Verdict(w, "dict", VerdictKeys, d, up) :
                w \in {"bare", "fenced", "prose"},
                d \in {"continue", "retry", "end", "bogus"},
                up \in {"", "updated plan"}}
        \cup {Verdict("bare", "dict", VerdictKeys \ {k}, "continue", "") : k \in VerdictKeys}

ReflectorResponses ==
    {[kind |-> "text", text |-> t] : t \in ReflectorTexts}
        \cup {[kind |-> k, text |-> Verdict("-", "-", {}, "-", "")] :
                k \in {"raise", "empty", "nontext"}}

\* strip(), the re.sub of the fence markers, " ".join(split()): what
\* json.loads is then given
Clean(text) == IF text.wrap = "prose" THEN [text EXCEPT !.json = "invalid"] ELSE text

\* the parse of the verdict: "ok", "fallback" (the inner except) or "fault"
\* (an exception the inner except does not catch)
MutParseVerdictAnyDecision(text) ==
    LET c == Clean(text)
    IN  CASE c.json = "invalid" -> "fallback"
          [] c.json = "scalar"  -> "fault"
          [] c.json = "list"    -> "fallback"
          [] OTHER ->
               IF ~(VerdictKeys \subseteq c.keys) THEN "fallback"
               ELSE "ok"

ParseVerdict(text) ==
    LET c == Clean(text)
    IN  CASE c.json = "invalid" -> "fallback"
          [] c.json = "scalar"  -> "fault"
          [] c.json = "list"    -> "fallback"
          [] OTHER ->
               IF ~(VerdictKeys \subseteq c.keys) THEN "fallback"
               ELSE IF c.decision \notin {"continue", "retry", "end"} THEN "fallback"
               ELSE "ok"

Evaluation(text) ==
    IF ParseVerdict(text) = "ok"
    THEN [decision |-> text.decision, reason |-> "reason",
          updated_plan |-> text.updated_plan]
    ELSE [decision |-> "end", reason |-> "Failed to parse LLM evaluation",
          updated_plan |-> ""]

\* ReActWorkflow._should_continue
MutShouldContinueStrictLimit(fa, step, decision) ==
    IF Truthy(fa) \/ step > MaxSteps THEN "end"
    ELSE IF decision = "retry" THEN "continue"
    ELSE IF decision = "end" THEN "end"
    ELSE "continue"

ShouldContinue(fa, step, decision) ==
    IF Truthy(fa) \/ step >= MaxSteps THEN "end"
    ELSE IF decision = "retry" THEN "continue"
    ELSE IF decision = "end" THEN "end"
    ELSE "continue"

Route(fa, step, decision) ==
    IF ShouldContinue(fa, step, decision) = "end" THEN "final_output" ELSE "reasoning"

ReflectorFaults(resp) ==
    \/ resp.kind \in {"raise", "empty", "nontext"}
    \/ resp.kind = "text" /\ ParseVerdict(resp.text) = "fault"

\* a verdict after which the run takes another turn with a different history
IsEventVerdict(resp) ==
    /\ ~ReflectorFaults(resp)
    /\ LET e == Evaluation(resp.text)
       IN  e.decision = "retry" \/ (e.decision = "continue" /\ e.updated_plan # "")

\* ReActWorkflow._reflection_node, the chat collaborator answering resp if
\* it is asked, and the conditional edge after the node
ReflectionWith(resp) ==
    /\ pc = "reflection"
    /\ IF Truthy(final_answer)
       THEN /\ reflection_decision' = "end"
            /\ reflection_notes' = Append(reflection_notes,
                                          "Skipped reflection due to existing final answer")
            /\ UNCHANGED <<messages, plan, sub_goals, final_answer, current_step, trace>>
       ELSE   /\ (IsEventVerdict(resp) /\ current_step < MaxSteps)
                     => MayDeviate(trace.events, current_step - 1)
              /\ IF ReflectorFaults(resp)
                 THEN /\ messages' = Append(messages, AINote("error", "Error in reflection"))
                      /\ current_step' = current_step + 1
                      /\ final_answer' = ErrorAnswer
                      /\ reflection_decision' = "end"
                      /\ reflection_notes' = Append(reflection_notes, "Error during reflection")
                      /\ trace' = [trace EXCEPT !.reflector = @ + 1, !.fault = "reflection"]
                      /\ UNCHANGED <<plan, sub_goals>>
                 ELSE LET e == Evaluation(resp.text)
                      IN  /\ reflection_notes' = Append(reflection_notes, e.reason)
                          /\ reflection_decision' = e.decision
                          /\ plan' = CASE e.decision = "retry" ->
                                            IF e.updated_plan # "" THEN e.updated_plan
                                            ELSE "Retry with alternative approach: ..."
                                       [] e.decision = "continue" ->
                                            IF e.updated_plan # "" THEN e.updated_plan
                                            ELSE plan
                                       [] OTHER -> plan
                          /\ sub_goals' = CASE e.decision = "retry" ->
                                                 Append(sub_goals, "Resolve issue based on LLM evaluation")
                                            [] e.decision = "continue" ->
                                                 Append(sub_goals, "Continue collecting data based on LLM evaluation")
                                            [] OTHER -> sub_goals
                          /\ trace' = [trace EXCEPT !.reflector = @ + 1,
                                          !.events = IF IsEventVerdict(resp) THEN @ + 1 ELSE @]
                          /\ UNCHANGED <<messages, final_answer, current_step>>
    /\ pc' = Route(final_answer', current_step', reflection_decision')
    /\ UNCHANGED <<tools_used, intermediate_results, tool_output, result, call, ret>>
    /\ UNCHANGED <<store, served>>

ReflectionNode == \E resp \in ReflectorResponses : ReflectionWith(resp)

(***************************************************************************)
(* The Finalizer's collaborator.                                           *)
(*   wrap  "bare" or "fenced" (``` lines around the text)                  *)
(*   body  "answer", "blank" (white space only) or "" (nothing)            *)
(***************************************************************************)
FinalizerResponses ==
    {[kind |-> "text", wrap |-> w, body |-> b] :
        w \in {"bare", "fenced"}, b \in {"answer", "blank", ""}}
        \cup {[kind |-> k, wrap |-> "-", body |-> "-"] : k \in {"raise", "empty", "nontext"}}

FallbackEmpty == "Toi khong the cung cap cau tra loi chi tiet luc nay."

FallbackError == "Toi xin loi, da xay ra loi khi xu ly cau hoi cua ban."

\* strip(), then the re.sub of the fence lines: white space between two
\* fence lines survives both
StripFence(resp) ==
    CASE resp.body = "answer" -> "synthesized answer"
      [] resp.body = "blank"  -> IF resp.wrap = "fenced" THEN " " ELSE ""
      [] OTHER                -> ""

\* ReActWorkflow._generate_final_answer (the query of a run is not empty)
GenerateFinalAnswer(resp) ==
    IF resp.kind # "text" THEN FallbackError
    ELSE IF StripFence(resp) = "" THEN FallbackEmpty
    ELSE StripFence(resp)

\* ReActWorkflow._final_output_node, the chat collaborator answering resp if
\* it is asked
FinalOutputWith(resp) ==
    /\ pc = "final_output"
    /\ IF Truthy(final_answer)
       THEN /\ messages' = Append(messages, AINote("final", final_answer))
            /\ UNCHANGED <<final_answer, trace>>
       ELSE   LET answer == GenerateFinalAnswer(resp)
              IN  /\ messages' = Append(messages, AINote("final", answer))
                  /\ final_answer' = answer
                  /\ trace' = [trace EXCEPT !.finalizer = @ + 1]
    /\ pc' = "return"
    /\ UNCHANGED <<tools_used, intermediate_results, plan, sub_goals, reflection_notes,
                   tool_output, reflection_decision, current_step, result, call, ret>>
    /\ UNCHANGED <<store, served>>

FinalOutputNode == \E resp \in FinalizerResponses : FinalOutputWith(resp)

SystemErrorAnswer == "Xin loi, da xay ra loi he thong khi xu ly cau hoi cua ban: ..."

\* the except branch of ReActWorkflow.run
MutErrorResultKeepsProgress ==
    [returned |-> TRUE, answer |-> SystemErrorAnswer, success |-> FALSE,
     steps |-> current_step, tools_used |-> tools_used,
     intermediate_results |-> intermediate_results, plan |-> "",
     sub_goals |-> <<>>, reflection_notes |-> <<>>]

ErrorResult ==
    [returned |-> TRUE, answer |-> SystemErrorAnswer, success |-> FALSE, steps |-> 0,
     tools_used |-> <<>>, intermediate_results |-> <<>>, plan |-> "",
     sub_goals |-> <<>>, reflection_notes |-> <<>>]

\* ReActWorkflow.run, after the graph has ended.  No method
\* _generate_fallback_answer exists: calling it raises AttributeError, which
\* the except branch of run() turns into the error record.
RunReturn ==
    /\ pc = "return"
    /\ result' = IF Truthy(final_answer)
                 THEN [returned |-> TRUE, answer |-> final_answer, success |-> TRUE,
                       steps |-> current_step, tools_used |-> tools_used,
                       intermediate_results |-> intermediate_results, plan |-> plan,
                       sub_goals |-> sub_goals, reflection_notes |-> reflection_notes]
                 ELSE ErrorResult
    /\ pc' = "done"
    /\ UNCHANGED <<messages, tools_used, intermediate_results, plan, sub_goals,
                   reflection_notes, tool_output, final_answer, reflection_decision,
                   current_step, trace, call, ret>>
    /\ UNCHANGED <<store, served>>

Next == ReasoningNode \/ ActionNode \/ ReflectionNode \/ FinalOutputNode \/ RunReturn

Spec == Init /\ [][Next]_vars

\* the graph runs every node it schedules: a run does not stop half way
FairSpec == Spec /\ WF_vars(Next)

(***************************************************************************)
(* The dispatcher called on its own, over every kind of name and input     *)
(***************************************************************************)
StockFields == {"symbols", "data_type", "start_date", "end_date"}

DataTypes == {"realtime", "historical", "other"}

InputObjects ==
    {Object(p, t, d) :
        p \in SUBSET StockFields \cup {{"query"}, {"symbol"}, {"messages"}, {"query", "extra"}},
        t \in {{}, {"symbols"}, {"query"}, {"end_date"}},
        d \in DataTypes \cup {"-"}}

DispatchInputs ==
    {NonObject(j) : j \in {"nonstr", "invalid", "null", "list", "scalar"}}
        \cup {i \in InputObjects \cup {SingleSymbol(o) : o \in InputObjects} :
                /\ i.illtyped \subseteq i.present
                /\ (i.data_type = "-") <=> ("data_type" \notin i.present)
                /\ i.symbols = "one" => i.present = {"symbols"}}

DispatchCalls ==
    {[tool_name |-> n, input |-> i, exec |-> e] :
        n \in Registered \cup {UnknownTool, NonStringName},
        i \in DispatchInputs,
        e \in {"ok", "provider_raises", "impl_raises"}}

InitDispatch ==
    /\ pc = "call"
    /\ call \in {c \in DispatchCalls :
                    c.exec = "impl_raises" => c.tool_name \in Registered \ {"stock_price"}}
    /\ ret = NoRet
    /\ store = NoStore
    /\ served = NoneServed
    /\ messages = <<HumanMessage>>
    /\ tools_used = <<>>
    /\ intermediate_results = <<>>
    /\ plan = ""
    /\ sub_goals = <<>>
    /\ reflection_notes = <<>>
    /\ tool_output = None
    /\ final_answer = None
    /\ reflection_decision = "continue"
    /\ current_step = 0
    /\ result = NoResult
    /\ trace = NoTrace

\* await self._execute_tool_safely(tool_name, tool_input)
Dispatch ==
    /\ pc = "call"
    /\ ret' = ExecuteToolSafely(call.tool_name, call.input, call.exec)
    /\ pc' = "returned"
    /\ UNCHANGED <<messages, tools_used, intermediate_results, plan, sub_goals,
                   reflection_notes, tool_output, final_answer, reflection_decision,
                   current_step, result, trace, call>>
    /\ UNCHANGED <<store, served>>

SpecDispatch == InitDispatch /\ [][Dispatch]_vars

(***************************************************************************)
(* run() on its own: the try block either gets a final state back from the *)
(* graph, or raises while the initial state is built ("build"), while the  *)
(* graph runs ("graph") or while the record is made ("extract")            *)
(***************************************************************************)
RunStages == {"build", "graph", "extract"}

\* tools_used / intermediate_results of a state the graph hands back
Dispatched ==
    {<<>>, <<"stock_price">>, <<"stock_price", "tavily_search">>}

EntriesOf(used) ==
    [i \in 1..Len(used) |->
        ResultEntry(ActionText(used[i], NoInput), NoObs, used[i],
                    ErrorRecord("-", used[i]))]

InitRun ==
    /\ \E stage \in RunStages \cup {"none"} :
         /\ pc = IF stage = "none" THEN "return" ELSE "except"
         /\ trace = [NoTrace EXCEPT !.fault = stage]
         /\ IF stage = "build"
            THEN /\ current_step = 0
                 /\ tools_used = <<>>
                 /\ final_answer = None
            ELSE /\ current_step \in 0..(MaxSteps + 1)
                 /\ tools_used \in Dispatched
                 /\ IF stage = "none"
                    THEN final_answer \in {"answer", " ", ErrorAnswer, FallbackEmpty,
                                           FallbackError}
                    ELSE final_answer \in {None, "", "answer", ErrorAnswer}
    /\ intermediate_results = EntriesOf(tools_used)
    /\ messages = <<HumanMessage>>
    /\ plan = ""
    /\ sub_goals = <<>>
    /\ reflection_notes = <<>>
    /\ tool_output = None
    /\ reflection_decision = "end"
    /\ result = NoResult
    /\ call = NoCall
    /\ ret = NoRet
    /\ store = NoStore
    /\ served = NoneServed

\* the except branch of ReActWorkflow.run
RunExcept ==
    /\ pc = "except"
    /\ result' = ErrorResult
    /\ pc' = "done"
    /\ UNCHANGED <<messages, tools_used, intermediate_results, plan, sub_goals,
                   reflection_notes, tool_output, final_answer, reflection_decision,
                   current_step, trace, call, ret>>
    /\ UNCHANGED <<store, served>>

SpecRun == InitRun /\ [][RunReturn \/ RunExcept]_vars

(***************************************************************************)
(* The action parser called on its own, over every shape of block          *)
(***************************************************************************)
ActionKinds == {"str", "empty", "number", "null", "list", "empty_list", "list_other"}

BlockInputs == {Object({"symbols", "data_type"}, {}, "realtime"), NonObject("null")}

Blocks ==
    {NoBlock}
        \cup {Block("found", j, {}, "-", "-", NoInput) : j \in {"invalid", "scalar", "list"}}
        \cup {b \in {Block("found", "dict", k, a, n, i) :
                        k \in SUBSET {"action", "input", "extra"},
                        a \in ActionKinds \cup {"-"},
                        n \in Registered \cup {UnknownTool, "-"},
                        i \in BlockInputs \cup {NoInput}} :
                /\ (b.action = "-") <=> ("action" \notin b.keys)
                /\ (b.name = "-") <=> (b.action \notin {"str", "list"})
                /\ (b.input = NoInput) <=> ("input" \notin b.keys)}

InitParse ==
    /\ pc = "parse"
    /\ call \in {[block |-> b, marker |-> m] : b \in Blocks, m \in {"none", "word"}}
    /\ ret = NoAction
    /\ store = NoStore
    /\ served = NoneServed
    /\ messages = <<HumanMessage>>
    /\ tools_used = <<>>
    /\ intermediate_results = <<>>
    /\ plan = ""
    /\ sub_goals = <<>>
    /\ reflection_notes = <<>>
    /\ tool_output = None
    /\ final_answer = None
    /\ reflection_decision = "continue"
    /\ current_step = 0
    /\ result = NoResult
    /\ trace = NoTrace

\* self.agent.parse_tool_usage(llm_response)
Parse ==
    /\ pc = "parse"
    /\ ret' = ParseBlock(call.block)
    /\ pc' = "parsed"
    /\ UNCHANGED <<messages, tools_used, intermediate_results, plan, sub_goals,
                   reflection_notes, tool_output, final_answer, reflection_decision,
                   current_step, result, trace, call>>
    /\ UNCHANGED <<store, served>>

SpecParse == InitParse /\ [][Parse]_vars

(***************************************************************************)
(* The session manager and the analysis service.  Two managers exist: the  *)
(* Redis one, which the service is built with, and the in-memory one.       *)
(* Time is the clock both read with time.time(); a Redis key written with  *)
(* setex(key, ttl, v) is gone ttl seconds later.                            *)
(***************************************************************************)
Managers == {"redis", "memory"}

SessionIds == {"s1", "s2"}

\* the session argument of analyze when the caller names no session
NoSessionId == ""

Queries == {"q1", "q2"}

\* StockAnalysisService._generate_query_hash: the md5 digest of the query
GenerateQueryHash(q) == CASE q = "q1" -> "5f1d" [] q = "q2" -> "a3c9"

Hashes == {GenerateQueryHash(q) : q \in Queries}

\* Python's None where a record is expected
Nothing == [none |-> TRUE]

\* json.dumps / json.loads of a value built of strings, numbers, booleans,
\* lists and string-keyed dicts: the text carries the value, and the text
\* of a missing key is read as None
Dumps(v) == [json |-> v]

Loads(text) == IF text = Nothing THEN Nothing ELSE text.json

\* the record analyze() builds from what run() returned
AnalysisResult(answer, success, session_id, query_hash, steps) ==
    [answer |-> answer,
     metadata |-> [success |-> success, session_id |-> session_id, steps |-> steps,
                   cached |-> FALSE, query_hash |-> query_hash]]

\* what run() can return to analyze: an answer of the graph, the answer of a
\* node's handler, or the record of its own except branch
RunOutcomes ==
    {[answer |-> "synthesized answer", success |-> TRUE, steps |-> 1],
     [answer |-> ErrorAnswer, success |-> TRUE, steps |-> 2],
     [answer |-> SystemErrorAnswer, success |-> FALSE, steps |-> 0]}

\* results handed to cache_analysis by a direct caller
DirectResults ==
    {AnalysisResult("direct answer", TRUE, id, h, 1) : id \in SessionIds, h \in Hashes}

Keys == SessionIds \X Hashes

\* f"cache:{session_id}:{query_hash}"
MutCacheKeyIgnoresHash(session_id, query_hash) == <<session_id, "5f1d">>

CacheKey(session_id, query_hash) == <<session_id, query_hash>>

\* a Redis key holds a value until its expiry
Live(entry, now) == entry # Nothing /\ now < entry.expires

Setex(ttl, v, now) == [value |-> v, expires |-> now + ttl]

SessionData(now) == [last_accessed |-> now, conversation_history |-> <<>>]

NewStore(manager) ==
    [manager |-> manager, now |-> 0,
     sessions |-> [id \in SessionIds |-> Nothing],
     chat |-> [id \in SessionIds |-> Nothing],
     cache |-> [k \in Keys |-> Nothing]]

\* get_session: the record, with last_accessed set to now and (Redis) the
\* whole record written back for another default_ttl
GetSession(s, id) ==
    IF s.manager = "redis"
    THEN IF Live(s.sessions[id], s.now)
         THEN LET session_data ==
                      [Loads(s.sessions[id].value) EXCEPT !.last_accessed = s.now]
              IN  [store |-> [s EXCEPT !.sessions[id] =
                                  Setex(DefaultTtl, Dumps(session_data), s.now)],
                   value |-> session_data]
         ELSE [store |-> s, value |-> Nothing]
    ELSE IF s.sessions[id] # Nothing
         THEN LET session == [s.sessions[id] EXCEPT !.last_accessed = s.now]
              IN  [store |-> [s EXCEPT !.sessions[id] = session], value |-> session]
         ELSE [store |-> s, value |-> Nothing]

\* create_session_with_id, for an id no session has; create_session is the
\* same with a fresh uuid
CreateSessionWithId(s, id) ==
    IF s.manager = "redis"
    THEN [s EXCEPT !.sessions[id] = Setex(DefaultTtl, Dumps(SessionData(s.now)), s.now)]
    ELSE [s EXCEPT !.sessions[id] = SessionData(s.now)]

SessionExists(s, id) ==
    IF s.manager = "redis" THEN Live(s.sessions[id], s.now) ELSE s.sessions[id] # Nothing

\* delete_session.  The Redis manager deletes session:{id} and history:{id},
\* a key none of its methods writes: the cached results (cache:{id}:{h}) and
\* the list RedisChatMessageHistory keeps stay.  The in-memory manager drops
\* the session object, and with it the analysis_cache it holds.
DeleteSession(s, id) ==
    IF s.manager = "redis"
    THEN [s EXCEPT !.sessions[id] = Nothing]
    ELSE [s EXCEPT !.sessions[id] = Nothing,
                   !.cache = [k \in Keys |-> IF k[1] = id THEN Nothing ELSE @[k]]]

\* RedisChatMessageHistory: add_user_message pushes onto the list of the
\* session and renews its ttl; messages reads the list in the order pushed
AddMessage(s, id, message) ==
    LET old == IF Live(s.chat[id], s.now) THEN s.chat[id].value ELSE <<>>
    IN  [s EXCEPT !.chat[id] = Setex(DefaultTtl, Append(old, message), s.now)]

HistoryMessages(s, id) ==
    IF Live(s.chat[id], s.now) THEN s.chat[id].value ELSE <<>>

\* LangChainRedisSessionManager.update_conversation, run without
\* interruption
UpdateConversation(s, id, message) ==
    LET added == AddMessage(s, id, message)
        got == GetSession(added, id)
    IN  IF got.value = Nothing
        THEN got.store
        ELSE LET session_data ==
                     [got.value EXCEPT
                          !.conversation_history = HistoryMessages(got.store, id)]
             IN  [got.store EXCEPT !.sessions[id] =
                      Setex(DefaultTtl, Dumps(session_data), got.store.now)]

\* whether update_conversation raises on the message analyze passes: the
\* in-memory manager builds {**message, "timestamp": ...} from it, which a
\* HumanMessage object does not allow (TypeError); the Redis manager
\* catches and logs every fault of its own
UpdateConversationRaises(s, id, message) ==
    /\ s.manager = "memory"
    /\ s.sessions[id] # Nothing
    /\ message.type = "HumanMessage"

\* cache_analysis
CacheAnalysis(s, id, h, r) ==
    IF s.manager = "redis"
    THEN [s EXCEPT !.cache[CacheKey(id, h)] = Setex(DefaultTtl, Dumps(r), s.now)]
    ELSE LET got == GetSession(s, id)
         IN  IF got.value = Nothing
             THEN got.store
             ELSE [got.store EXCEPT !.cache[<<id, h>>] =
                                        [result |-> r, cached_at |-> s.now]]

\* get_cached_analysis.  The Redis manager never looks at cache_ttl; the
\* in-memory one drops an entry older than cache_ttl.
GetCachedAnalysis(s, id, h, cache_ttl) ==
    IF s.manager = "redis"
    THEN LET cached == s.cache[CacheKey(id, h)]
         IN  [store |-> s,
              value |-> IF Live(cached, s.now) THEN Loads(cached.value) ELSE Nothing]
    ELSE LET got == GetSession(s, id)
             cached == got.store.cache[<<id, h>>]
         IN  IF got.value = Nothing \/ cached = Nothing
             THEN [store |-> got.store, value |-> Nothing]
             ELSE IF s.now - cached.cached_at > cache_ttl
                  THEN [store |-> [got.store EXCEPT !.cache[<<id, h>>] = Nothing],
                        value |-> Nothing]
                  ELSE [store |-> got.store, value |-> cached.result]

\* StockAnalysisService._ensure_session; fresh is the uuid create_session
\* draws
EnsureSession(s, session_id, fresh) ==
    IF session_id # NoSessionId
    THEN LET got == GetSession(s, session_id)
         IN  IF got.value # Nothing
             THEN [store |-> got.store, value |-> session_id]
             ELSE [store |-> CreateSessionWithId(got.store, session_id),
                   value |-> session_id]
    ELSE [store |-> CreateSessionWithId(s, fresh), value |-> fresh]

\* the two overrides analyze makes on a cache hit
MutCacheHitKeepsFlag(cached_result, effective_session_id) ==
    [cached_result EXCEPT !.metadata.session_id = effective_session_id]

CacheHit(cached_result, effective_session_id) ==
    [cached_result EXCEPT !.metadata.session_id = effective_session_id,
                          !.metadata.cached = TRUE]

UserMessage(query) == [type |-> "HumanMessage", content |-> query]

AnalysisErrorAnswer == "Xin loi, da xay ra loi trong qua trinh phan tich: ..."

\* whether analyze caches the record it built from what run() returned
CachesResult(res) == res.metadata.success

\* the contents of the cache entry of a key, or Nothing
CachedEntry(s, key) ==
    IF s.manager = "redis"
    THEN IF Live(s.cache[CacheKey(key[1], key[2])], s.now)
         THEN Loads(s.cache[CacheKey(key[1], key[2])].value)
         ELSE Nothing
    ELSE IF s.cache[key] # Nothing THEN s.cache[key].result ELSE Nothing

\* StockAnalysisService.analyze, with outcome what run() returns if it is
\* called: value is the record returned, ran whether the workflow ran, wrote
\* whether the record was handed to cache_analysis
Analyze(s, query, session_id, fresh, outcome) ==
    LET ensured == EnsureSession(s, session_id, fresh)
        id == ensured.value
        query_hash == GenerateQueryHash(query)
        looked == GetCachedAnalysis(ensured.store, id, query_hash, CacheTtl)
    IN  IF looked.value # Nothing
        THEN [store |-> looked.store, value |-> CacheHit(looked.value, id),
              session_id |-> id, ran |-> FALSE, wrote |-> FALSE]
        ELSE IF UpdateConversationRaises(looked.store, id, UserMessage(query))
        THEN \* the except branch: error_result is cached and returned
             LET error_result == AnalysisResult(AnalysisErrorAnswer, FALSE, id,
                                                query_hash, 0)
             IN  [store |-> CacheAnalysis(GetSession(looked.store, id).store, id,
                                          query_hash, error_result),
                  value |-> error_result, session_id |-> id, ran |-> FALSE,
                  wrote |-> TRUE]
        ELSE LET updated == UpdateConversation(looked.store, id, UserMessage(query))
                 res == AnalysisResult(outcome.answer, outcome.success, id,
                                       query_hash, outcome.steps)
             IN  [store |-> IF CachesResult(res)
                            THEN CacheAnalysis(updated, id, query_hash, res)
                            ELSE updated,
                  value |-> res, session_id |-> id, ran |-> TRUE,
                  wrote |-> CachesResult(res)]

(***************************************************************************)
(* The service and the manager's cache methods called one after another.   *)
(* served counts the calls and the workflow runs, and remembers for every   *)
(* key the last result written to it and whether the session was deleted   *)
(* since, and, for every session and query, the last successful record     *)
(* analyze returned.                                                       *)
(***************************************************************************)
NewServed ==
    [ops |-> 0, runs |-> 0,
     written |-> [k \in Keys |-> Nothing],
     deleted |-> [k \in Keys |-> FALSE],
     answered |-> [k \in Keys |-> Nothing]]

InitService ==
    /\ pc = "service"
    /\ messages = <<>>
    /\ tools_used = <<>>
    /\ intermediate_results = <<>>
    /\ plan = ""
    /\ sub_goals = <<>>
    /\ reflection_notes = <<>>
    /\ tool_output = "none"
    /\ final_answer = None
    /\ reflection_decision = "continue"
    /\ current_step = 0
    /\ result = NoResult
    /\ trace = NoTrace
    /\ call = [op |-> "-"]
    /\ ret = Nothing
    /\ store \in {NewStore(m) : m \in Managers}
    /\ served = NewServed

ServiceFrame ==
    UNCHANGED <<pc, messages, tools_used, intermediate_results, plan, sub_goals,
                reflection_notes, tool_output, final_answer, reflection_decision,
                current_step, result, trace>>

\* time passes
Tick ==
    /\ pc = "service"
    /\ store.now + TimeStep <= MaxTime
    /\ store' = [store EXCEPT !.now = @ + TimeStep]
    /\ UNCHANGED <<call, ret, served>>
    /\ ServiceFrame

\* a caller that names no session gets one
CreateSessionCall ==
    /\ pc = "service"
    /\ served.ops < MaxOps
    /\ \E id \in SessionIds :
          /\ ~SessionExists(store, id)
          /\ store' = CreateSessionWithId(store, id)
          /\ call' = [op |-> "create_session", session_id |-> id]
          /\ ret' = Nothing
    /\ served' = [served EXCEPT !.ops = @ + 1]
    /\ ServiceFrame

CacheAnalysisCall ==
    /\ pc = "service"
    /\ served.ops < MaxOps
    /\ \E id \in SessionIds, h \in Hashes, r \in DirectResults :
          /\ SessionExists(store, id)
          /\ r.metadata.session_id = id /\ r.metadata.query_hash = h
          /\ store' = CacheAnalysis(store, id, h, r)
          /\ call' = [op |-> "cache_analysis", session_id |-> id, query_hash |-> h]
          /\ ret' = Nothing
          /\ served' = [served EXCEPT
                            !.ops = @ + 1,
                            !.written[<<id, h>>] =
                                [result |-> r, at |-> store.now, by |-> "caller"],
                            !.deleted[<<id, h>>] = FALSE]
    /\ ServiceFrame

GetCachedAnalysisCall ==
    /\ pc = "service"
    /\ served.ops < MaxOps
    /\ \E id \in SessionIds, h \in Hashes :
          LET got == GetCachedAnalysis(store, id, h, CacheTtl)
          IN  /\ store' = got.store
              /\ call' = [op |-> "get_cached_analysis", session_id |-> id,
                          query_hash |-> h, cache_ttl |-> CacheTtl]
              /\ ret' = got.value
    /\ served' = [served EXCEPT !.ops = @ + 1]
    /\ ServiceFrame

\* analyze; the in-memory manager has no create_session_with_id, so with it
\* a call has to name a session that exists or none
AnalyzeCall ==
    /\ pc = "service"
    /\ served.ops < MaxOps
    /\ \E query \in Queries, session_id \in SessionIds \cup {NoSessionId},
          fresh \in SessionIds, outcome \in RunOutcomes :
          /\ session_id = NoSessionId => ~SessionExists(store, fresh)
          /\ session_id # NoSessionId => fresh = session_id
          /\ (store.manager = "memory" /\ session_id # NoSessionId)
                => SessionExists(store, session_id)
          /\ LET done == Analyze(store, query, session_id, fresh, outcome)
                 key == <<done.session_id, GenerateQueryHash(query)>>
             IN  /\ store' = done.store
                 /\ call' = [op |-> "analyze", query |-> query,
                             session_id |-> done.session_id,
                             query_hash |-> GenerateQueryHash(query)]
                 /\ ret' = done.value
                 /\ served' =
                      [served EXCEPT
                         !.ops = @ + 1,
                         !.runs = IF done.ran THEN @ + 1 ELSE @,
                         !.written[key] =
                             IF done.wrote
                             THEN [result |-> done.value, at |-> store.now,
                                   by |-> "analyze"]
                             ELSE @,
                         !.deleted[key] = IF done.wrote THEN FALSE ELSE @,
                         !.answered[key] =
                             IF done.value.metadata.success THEN done.value ELSE @]
    /\ ServiceFrame

\* DELETE /session/{session_id}: 404 unless get_session finds the session
DeleteSessionCall ==
    /\ pc = "service"
    /\ served.ops < MaxOps
    /\ \E id \in SessionIds :
          /\ GetSession(store, id).value # Nothing
          /\ store' = DeleteSession(GetSession(store, id).store, id)
          /\ call' = [op |-> "delete_session", session_id |-> id]
          /\ ret' = Nothing
          /\ served' = [served EXCEPT
                            !.ops = @ + 1,
                            !.deleted = [k \in Keys |-> IF k[1] = id THEN TRUE ELSE @[k]]]
    /\ ServiceFrame

NextService ==
    Tick \/ CreateSessionCall \/ CacheAnalysisCall \/ GetCachedAnalysisCall
        \/ AnalyzeCall \/ DeleteSessionCall

SpecService == InitService /\ [][NextService]_vars

(***************************************************************************)
(* Concurrent calls of get_session and update_conversation on one session. *)
(* Each call is a coroutine: it runs alone from one await of a Redis        *)
(* command (or of the manager's lock) to the next, and other calls run in  *)
(* between.  served.applied lists the messages in the order they were       *)
(* added.                                                                  *)
(***************************************************************************)
Callers == {"c1", "c2", "c3"}

SharedSession == "s1"

CallKinds == {"get_session", "update_conversation"}

NewCall(kind) == [op |-> kind, at |-> "start", data |-> Nothing]

\* what the in-memory manager appends: the message and a timestamp
Stamped(message, now) ==
    [type |-> message.type, content |-> message.content, timestamp |-> now]

\* conversation_history of the session record
RecordedHistory(s, id) ==
    IF s.manager = "redis"
    THEN Loads(s.sessions[id].value).conversation_history
    ELSE s.sessions[id].conversation_history

InitSessions ==
    /\ pc = "sessions"
    /\ messages = <<>>
    /\ tools_used = <<>>
    /\ intermediate_results = <<>>
    /\ plan = ""
    /\ sub_goals = <<>>
    /\ reflection_notes = <<>>
    /\ tool_output = "none"
    /\ final_answer = None
    /\ reflection_decision = "continue"
    /\ current_step = 0
    /\ result = NoResult
    /\ trace = NoTrace
    /\ call \in [Callers -> {NewCall(k) : k \in CallKinds}]
    /\ ret = Nothing
    /\ store \in {CreateSessionWithId(NewStore(m), SharedSession) : m \in Managers}
    /\ served = [ops |-> 0, runs |-> 0, applied |-> <<>>]

\* update_conversation of the Redis manager, up to its first await:
\* history.add_user_message
AddUserMessage(c) ==
    /\ pc = "sessions"
    /\ store.manager = "redis"
    /\ call[c].op = "update_conversation" /\ call[c].at = "start"
    /\ store' = AddMessage(store, SharedSession, UserMessage(c))
    /\ served' = [served EXCEPT !.applied = Append(@, UserMessage(c))]
    /\ call' = [call EXCEPT ![c].at = "added"]
    /\ UNCHANGED ret
    /\ ServiceFrame

\* get_session of the Redis manager: data = await self.redis.get(session_key)
RedisGet(c) ==
    /\ pc = "sessions"
    /\ store.manager = "redis"
    /\ \/ call[c].op = "get_session" /\ call[c].at = "start"
       \/ call[c].op = "update_conversation" /\ call[c].at = "added"
    /\ LET data == IF Live(store.sessions[SharedSession], store.now)
                   THEN store.sessions[SharedSession].value
                   ELSE Nothing
       IN  call' = [call EXCEPT ![c].data = data,
                                ![c].at = IF data = Nothing THEN "done" ELSE "read"]
    /\ UNCHANGED <<store, served>>
    /\ UNCHANGED ret
    /\ ServiceFrame

\* get_session of the Redis manager: the record it read goes back with a new
\* last_accessed
RedisSetex(c) ==
    /\ pc = "sessions"
    /\ store.manager = "redis"
    /\ call[c].at = "read"
    /\ LET session_data == [Loads(call[c].data) EXCEPT !.last_accessed = store.now]
       IN  /\ store' = [store EXCEPT !.sessions[SharedSession] =
                            Setex(DefaultTtl, Dumps(session_data), store.now)]
           /\ call' = [call EXCEPT
                         ![c].data = Dumps(session_data),
                         ![c].at = IF call[c].op = "get_session"
                                   THEN "done" ELSE "refreshed"]
    /\ UNCHANGED served
    /\ UNCHANGED ret
    /\ ServiceFrame

\* update_conversation of the Redis manager after get_session: the record
\* get_session returned gets the messages of the history and is written
WriteConversation(c) ==
    /\ pc = "sessions"
    /\ store.manager = "redis"
    /\ call[c].at = "refreshed"
    /\ LET session_data ==
               [Loads(call[c].data) EXCEPT
                    !.conversation_history = HistoryMessages(store, SharedSession)]
       IN  store' = [store EXCEPT !.sessions[SharedSession] =
                         Setex(DefaultTtl, Dumps(session_data), store.now)]
    /\ call' = [call EXCEPT ![c].at = "done"]
    /\ UNCHANGED served
    /\ UNCHANGED ret
    /\ ServiceFrame

\* get_session of the in-memory manager, all of it under the lock
LockedGetSession(c) ==
    /\ pc = "sessions"
    /\ store.manager = "memory"
    /\ call[c].at = "start"
    /\ LET got == GetSession(store, SharedSession)
       IN  /\ store' = got.store
           /\ call' = [call EXCEPT
                         ![c].at = IF call[c].op = "get_session" \/ got.value = Nothing
                                   THEN "done" ELSE "held"]
    /\ UNCHANGED served
    /\ UNCHANGED ret
    /\ ServiceFrame

\* update_conversation of the in-memory manager: the append to the session
\* object get_session returned, under the lock
LockedAppend(c) ==
    /\ pc = "sessions"
    /\ store.manager = "memory"
    /\ call[c].at = "held"
    /\ store' = [store EXCEPT !.sessions[SharedSession].conversation_history =
                     Append(@, Stamped(UserMessage(c), store.now))]
    /\ served' = [served EXCEPT
                    !.applied = Append(@, Stamped(UserMessage(c), store.now))]
    /\ call' = [call EXCEPT ![c].at = "done"]
    /\ UNCHANGED ret
    /\ ServiceFrame

NextSessions ==
    \E c \in Callers :
        \/ AddUserMessage(c)
        \/ RedisGet(c)
        \/ RedisSetex(c)
        \/ WriteConversation(c)
        \/ LockedGetSession(c)
        \/ LockedAppend(c)

SpecSessions == InitSessions /\ [][NextSessions]_vars

(***************************************************************************)
(* Properties                                                              *)
(***************************************************************************)

\* C1: whatever the Reasoner, the tools, the Reflector and the Finalizer do,
\* run() reaches its end, the Reasoner is asked at most max_steps times (one
\* call per reasoning->action->reflection cycle), and the record returned
\* has an answer that is neither null nor empty.
RunTerminatesWithAnswer ==
    /\ <>(pc = "done")
    /\ [](trace.reasoner <= MaxSteps)
    /\ [](pc = "done" => (result.returned /\ result.answer \notin {None, ""}))

\* a run that used all max_steps cycles has returned an answer
FullLengthRunReturned ==
    /\ pc = "done"
    /\ trace.reasoner = MaxSteps
    /\ result.returned
    /\ result.answer \notin {None, ""}

\* C2: once final_answer is set (it is no longer null), no later node
\* changes it, no tool is dispatched, the Reflector is not called, and the
\* conditional edge after the reflection node goes to final_output.
FinalAnswerPrecedence ==
    [][final_answer # None =>
          /\ final_answer' = final_answer
          /\ trace'.dispatcher = trace.dispatcher
          /\ trace'.reflector = trace.reflector
          /\ (pc = "reflection" => pc' = "final_output")]_vars

\* C3: tools_used and intermediate_results have the same length, and the
\* i-th entry of intermediate_results names the i-th tool of tools_used.
ToolsAlignedWithResults ==
    /\ Len(tools_used) = Len(intermediate_results)
    /\ \A i \in 1..Len(tools_used) : intermediate_results[i].tool_name = tools_used[i]
    /\ Len(result.tools_used) = Len(result.intermediate_results)
    /\ \A i \in 1..Len(result.tools_used) :
          result.intermediate_results[i].tool_name = result.tools_used[i]

\* a run with a successful and a failed dispatch in its history
MixedDispatchesRecorded ==
    /\ Len(tools_used) >= 2
    /\ \E i, j \in 1..Len(intermediate_results) :
          intermediate_results[i].success /\ ~intermediate_results[j].success

\* C4: current_step never decreases from one node to the next, and it is at
\* most max_steps whenever the run is at final_output.
StepsMonotoneWithinBudget ==
    /\ [][current_step' >= current_step]_vars
    /\ [](pc = "final_output" => current_step <= MaxSteps)

\* C5: whatever the tool name (registered, unregistered, not a string), the
\* input text (an object, invalid JSON, JSON that is no object, an object the
\* schema rejects) and the outcome of the tool's execution, the dispatcher
\* returns a record whose status is success or error; no exception leaves it.
DispatcherNeverRaises ==
    pc = "returned" => (~ret.raised /\ ret.status \in {"success", "error"})

\* a call with the input text 'null' on a registered tool came back as an error
DispatcherNullInputWitness ==
    /\ pc = "returned"
    /\ call.tool_name \in Registered
    /\ call.input.json = "null"
    /\ ret.status = "error"
    /\ ~ret.raised

\* C6: a stock_price call whose input object has symbols but no data_type
\* comes back with status error, without the data provider being called and
\* without an exception.
StockPriceMissingDataTypeIsError ==
    (/\ pc = "returned"
     /\ call.tool_name = "stock_price"
     /\ call.input.json = "object"
     /\ "symbols" \in call.input.present
     /\ "data_type" \notin call.input.present)
        => (ret.status = "error" /\ ~ret.provider_called /\ ~ret.raised)

\* C7: the step in which a node's fault handler runs leaves an error message
\* as the last message and one more reflection note, final_answer 'Error:
\* ...' and reflection_decision end; after it the Reasoner is not asked and
\* no tool is dispatched.
NodeFaultRecordedAndDrained ==
    /\ [][(trace.fault = "none" /\ trace'.fault # "none") =>
             /\ Last(messages').kind = "error"
             /\ Len(reflection_notes') = Len(reflection_notes) + 1
             /\ final_answer' = ErrorAnswer
             /\ reflection_decision' = "end"]_vars
    /\ [][trace.fault # "none" =>
             /\ trace'.reasoner = trace.reasoner
             /\ trace'.dispatcher = trace.dispatcher]_vars

\* C8: the record of a run that a node fault ended (final_answer forced to
\* 'Error: ...') has success = false.
FaultedRunReportsFailure ==
    (result.returned /\ trace.fault # "none") => ~result.success

\* C9: when the Reflector is asked and its output (the fence lines the node
\* strips aside) is not valid JSON, is not an object with decision, reason
\* and updated_plan, or has a decision outside continue/retry/end, the step
\* ends with reflection_decision = end and goes to final_output; the
\* Reasoner is not asked again.
ReflectionFailSafe ==
    /\ [][(pc = "reflection" /\ ~Truthy(final_answer)) =>
            \A resp \in ReflectorResponses :
               (/\ resp.kind = "text"
                /\ \/ resp.text.wrap = "prose"
                   \/ resp.text.json # "dict"
                   \/ ~(VerdictKeys \subseteq resp.text.keys)
                   \/ resp.text.decision \notin {"continue", "retry", "end"}
                /\ ReflectionWith(resp))
               => (reflection_decision' = "end" /\ pc' = "final_output")]_vars
    /\ [][(pc \in {"final_output", "return", "done"}) =>
             (trace'.reasoner = trace.reasoner)]_vars

\* an unusable verdict ended a run that had steps left and no answer yet
UnusableVerdictEndedRun ==
    /\ pc = "final_output"
    /\ Last(reflection_notes) = "Failed to parse LLM evaluation"
    /\ reflection_decision = "end"
    /\ final_answer = None
    /\ current_step < MaxSteps
    /\ trace.fault = "none"

\* C10: a run in which the Reasoner gave max_steps texts, none with a
\* final-answer marker or a parsable action, ends with current_step =
\* max_steps, success = true, no tool used, and the Finalizer's answer.
TenUnparsableTurnsEndAtLimit ==
    (/\ pc = "done"
     /\ Cardinality({i \in 1..Len(messages) : messages[i].kind = "llm"}) = MaxSteps
     /\ \A i \in 1..Len(messages) :
           messages[i].kind = "llm" =>
               (messages[i].text.marker = "none" /\ ~ParseToolUsage(messages[i].text).found))
        => (/\ current_step = MaxSteps
            /\ result.success
            /\ result.steps = MaxSteps
            /\ result.tools_used = <<>>
            /\ trace.finalizer = 1
            /\ result.answer = Last(messages).str)

\* C11: a run whose first Reasoner text is a stock_price action that the
\* tool answers with success, and whose second Reasoner text, if there is
\* one, is a final answer without an action, returns tools_used =
\* <<stock_price>>, steps = 1 and success = true.
OneActionThenAnswerRun ==
    LET llm == {i \in 1..Len(messages) : messages[i].kind = "llm"}
    IN  (/\ pc = "done"
         /\ trace.reasoner = Cardinality(llm)
         /\ Cardinality(llm) \in {1, 2}
         /\ messages[2].kind = "llm"
         /\ ParseToolUsage(messages[2].text).found
         /\ ParseToolUsage(messages[2].text).tool_name = "stock_price"
         /\ messages[2].text.marker = "none"
         /\ Len(intermediate_results) >= 1
         /\ intermediate_results[1].success
         /\ \A i \in llm \ {2} :
               /\ messages[i].text.marker = "pattern"
               /\ messages[i].text.after \in {"line", "lines"}
               /\ messages[i].text.block = "none")
        => (/\ result.tools_used = <<"stock_price">>
            /\ result.steps = 1
            /\ result.success)

\* C12: run() always hands a record back; when the try block raised (while
\* the initial state was built, while the graph ran, or while the record was
\* made) the record has success = false, steps = 0, no tools_used, no
\* intermediate_results and an answer that is not empty.
RunNeverPropagates ==
    pc = "done" =>
        /\ result.returned
        /\ (trace.fault \in RunStages \/ ~Truthy(final_answer)) =>
              /\ ~result.success
              /\ result.steps = 0
              /\ result.tools_used = <<>>
              /\ result.intermediate_results = <<>>
              /\ result.answer \notin {None, ""}

\* the graph raised after two dispatches and run() returned the error record
GraphFaultReturnedErrorRecord ==
    /\ pc = "done"
    /\ trace.fault = "graph"
    /\ Len(tools_used) = 2
    /\ current_step > 0
    /\ result.returned
    /\ ~result.success

\* C13: the parser raises nothing and returns a tool name and an input
\* exactly when the text has a fenced block that parses to an object with an
\* input and an action that resolves (as a string, or as the first element of
\* a list) to a registered tool; the name it returns is that registered name.
ParserReturnsRegisteredOrNothing ==
    pc = "parsed" =>
        LET b == call.block
            usable == /\ b.fence = "found"
                      /\ b.json = "dict"
                      /\ {"action", "input"} \subseteq b.keys
                      /\ b.action \in {"str", "list"}
                      /\ b.name \in Registered
        IN  /\ ~ret.raised
            /\ ret.found <=> usable
            /\ ret.found => (ret.tool_name = b.name /\ ret.tool_name \in Registered
                             /\ ret.tool_input = b.input)
            /\ ~ret.found => ret = NoAction

\* a block naming a tool that is not registered was turned down
UnknownToolTurnedDown ==
    /\ pc = "parsed"
    /\ call.block.json = "dict"
    /\ call.block.keys = {"action", "input"}
    /\ call.block.action = "str"
    /\ call.block.name = UnknownTool
    /\ ~ret.found

\* C14: the parser returns nothing for every block whose object does not
\* have exactly the two keys action and input.
ParserRequiresExactlyTwoKeys ==
    (/\ pc = "parsed"
     /\ call.block.fence = "found"
     /\ call.block.json = "dict"
     /\ call.block.keys # {"action", "input"})
        => ~ret.found

RepeatedAnalyzeIsCacheHit ==
    [][(/\ served'.ops # served.ops
        /\ call'.op = "analyze"
        /\ served.answered[<<call'.session_id, call'.query_hash>>] # Nothing
        /\ served.written[<<call'.session_id, call'.query_hash>>] # Nothing
        /\ served.written[<<call'.session_id, call'.query_hash>>].by = "analyze"
        /\ store.manager = "redis"
        /\ SessionExists(store, call'.session_id)
        /\ Live(store.cache[CacheKey(call'.session_id, call'.query_hash)], store.now))
          => /\ ret'.answer = served.answered[<<call'.session_id, call'.query_hash>>].answer
             /\ ret'.metadata.cached
             /\ served'.runs = served.runs
             /\ HistoryMessages(store', call'.session_id)
                    = HistoryMessages(store, call'.session_id)
             /\ Loads(store'.sessions[call'.session_id].value).conversation_history
                    = Loads(store.sessions[call'.session_id].value).conversation_history]_vars

\* the second of two analyze calls came back from the cache after the first
\* ran the workflow, later than cache_ttl
SecondAnalyzeServedFromCache ==
    /\ pc = "service"
    /\ call.op = "analyze"
    /\ ret.metadata.cached
    /\ served.runs = 1
    /\ served.ops = 2
    /\ store.now > CacheTtl
    /\ ret.answer = served.answered[<<call.session_id, call.query_hash>>].answer

\* C17: when every one of the concurrent get_session and update_conversation
\* calls on a session has completed, the conversation_history of the session
\* record holds every message added, in the order the messages were added.
NoConversationUpdateLost ==
    (pc = "sessions" /\ \A c \in Callers : call[c].at = "done")
        => RecordedHistory(store, SharedSession) = served.applied

\* C18: when the execute of a tool raises, the record the dispatcher returns
\* has status error, empty data and the message of the fault as its error,
\* and the observation made of it is 'Tool {name} failed: ' and that message.
ToolFaultMessageReported ==
    (/\ pc = "returned"
     /\ call.tool_name # NonStringName
     /\ DispatchFault(call.tool_name, call.input) = "none"
     /\ ExecuteImpl(call.tool_name, BoundArgs(call.tool_name, call.input),
                    call.exec).raises)
        => /\ ret.status = "error"
           /\ ret.data = "empty"
           /\ ret.has_error
           /\ FormatToolResult(call.tool_name, ret).fmt = "Tool failed"
           /\ FormatToolResult(call.tool_name, ret).detail = ret.error
           /\ FormatToolResult(call.tool_name, ret).detail # "Unknown error"

\* C19: after a turn in which the action node found no action and no final
\* answer is set, with the step counter (already advanced by the action
\* node) still below max_steps, the reflection node hands control back to
\* the reasoning node and adds no further step.
UnparsableTurnLoopsBack ==
    [][(/\ pc = "reflection"
        /\ Last(messages) = AINote("no_action", "No valid tool action found")
        /\ ~Truthy(final_answer)
        /\ current_step < MaxSteps)
          => (pc' = "reasoning" /\ current_step' = current_step)]_vars

\* C20: when the text the Reasoner gave contains 'FINAL ANSWER', the
\* reasoning node returns with final_answer set and reflection_decision =
\* end, the action node of that cycle dispatches no tool and the reflection
\* node of that cycle does not call the Reflector.
FinalAnswerMarkerEndsCycle ==
    [][/\ (/\ pc = "reasoning"
           /\ Last(messages').kind = "llm"
           /\ Last(messages').text.marker # "none")
             => (final_answer' # None /\ reflection_decision' = "end")
       /\ (/\ pc = "action"
           /\ Last(messages).kind = "llm"
           /\ Last(messages).text.marker # "none")
             => trace'.dispatcher = trace.dispatcher
       /\ (/\ pc = "reflection"
           /\ LET m == IF Last(messages).kind = "llm" THEN Last(messages)
                       ELSE messages[Len(messages) - 1]
              IN  m.kind = "llm" /\ m.text.marker # "none")
             => trace'.reflector = trace.reflector]_vars

\* C21: the conditional edge after the reflection node goes to final_output
\* exactly when final_answer is set (not null), or current_step >= max_steps,
\* or reflection_decision = end, and to reasoning otherwise.
EdgeRoutesAsSpecified ==
    [][(pc = "reflection")
          => /\ pc' \in {"final_output", "reasoning"}
             /\ (pc' = "final_output")
                  <=> \/ final_answer' # None
                      \/ current_step' >= MaxSteps
                      \/ reflection_decision' = "end"]_vars

\* C22: a stock_price input with data_type historical and no start_date or
\* no end_date, or with a data_type other than realtime and historical, and
\* a peers_comparison input with fewer than two symbols, give a result with
\* status error, an intermediate_results entry with success false and a
\* failed-tool observation.
ConstraintViolationIsError ==
    (/\ pc = "returned"
     /\ call.tool_name \in {"stock_price", "peers_comparison"}
     /\ DispatchFault(call.tool_name, call.input) = "none"
     /\ \/ /\ call.tool_name = "stock_price"
            /\ ~ValidateParameters(BoundArgs(call.tool_name, call.input))
        \/ /\ call.tool_name = "peers_comparison"
            /\ ~ValidatePeers(BoundArgs(call.tool_name, call.input)))
        => /\ ret.status = "error"
           /\ ~ResultEntry(NoText, NoObs, call.tool_name, ret).success
           /\ FormatToolResult(call.tool_name, ret).fmt = "Tool failed"

\* C23: current_step is changed only by the action node, by exactly one per
\* action attempt (a dispatched tool or a turn with no valid action); the
\* reasoning, reflection and final_output nodes leave it as it was on every
\* path, their except branches included
StepChangedOnlyByActionAttempt ==
    [][/\ (pc # "action") => current_step' = current_step
       /\ (pc = "action")
             => current_step' = current_step + (IF Truthy(final_answer) THEN 0 ELSE 1)]_vars

\* the responses of the chat collaborator that reason() turns into an error
\* text: chat() raising, and a response without a 'response' field
FailedResponses == {resp \in ReasonerResponses : resp.kind \in {"raise", "empty"}}

NoActionNote == AINote("no_action", "No valid tool action found")

\* C24: when the chat collaborator raises or answers without a 'response'
\* field during reasoning, reason() returns the error text; the reasoning
\* node appends it as an AI message and leaves final_answer alone, the action
\* node takes it for a turn with no valid action (current_step + 1, nothing
\* dispatched), and the run goes on to reflection
ReasonerFaultIsAnOrdinaryTurn ==
    [][/\ \A resp \in FailedResponses :
            ReasoningWith(resp)
               => /\ Reason(resp) = ErrorText
                  /\ messages' = Append(messages, AIText(ErrorText))
                  /\ final_answer' = final_answer
                  /\ current_step' = current_step
                  /\ pc' = "action"
       /\ (pc = "action" /\ Last(messages) = AIText(ErrorText))
            => /\ messages' = Append(messages, NoActionNote)
               /\ current_step' = current_step + 1
               /\ tools_used' = tools_used
               /\ intermediate_results' = intermediate_results
               /\ final_answer' = final_answer
               /\ pc' = "reflection"]_vars

ReasonerFaultReachedReflection ==
    /\ pc = "reflection"
    /\ Len(messages) >= 3
    /\ messages[Len(messages) - 1] = AIText(ErrorText)
    /\ Last(messages) = NoActionNote
    /\ final_answer = None
    /\ trace.fault = "none"

(***************************************************************************)
(* Node boundaries.  An AgentState object holds its lists by reference:    *)
(* the heap maps a reference to the contents of a list object, a state     *)
(* object maps each list field to a reference.  call is the node called    *)
(* last, the state object it received and what that object's lists held    *)
(* when it was called; ret is the state object it returned, the heap after *)
(* it and the node the graph runs next.                                    *)
(***************************************************************************)
MaxCalls == 11

ListFields == {"messages", "sub_goals", "reflection_notes", "tools_used",
               "intermediate_results"}

\* what the list fields of a state object hold
Contents(heap, state) == [f \in ListFields |-> heap[state[f]]]

\* a new list object
NewList(heap, items) == Append(heap, items)

\* list.append: the list object changes, whoever refers to it
ListAppend(heap, ref, item) == [heap EXCEPT ![ref] = Append(@, item)]

\* BaseModel.model_copy() (deep=False): a new object whose fields refer to
\* the same list objects
ModelCopy(state) == state

\* the initial_state run() builds
InitialState ==
    [messages |-> 1, sub_goals |-> 2, reflection_notes |-> 3, tools_used |-> 4,
     intermediate_results |-> 5, final_answer |-> None]

InitialHeap == << <<"human">>, <<>>, <<>>, <<>>, <<>> >>

NodeCall(node, state, heap) ==
    [node |-> node, state |-> state, before |-> Contents(heap, state)]

NodeReturn(state, heap, next, calls) ==
    [state |-> state, heap |-> heap, next |-> next, calls |-> calls]

InitNodes ==
    /\ pc = "nodes"
    /\ messages = <<>>
    /\ tools_used = <<>>
    /\ intermediate_results = <<>>
    /\ plan = ""
    /\ sub_goals = <<>>
    /\ reflection_notes = <<>>
    /\ tool_output = "none"
    /\ final_answer = None
    /\ reflection_decision = "continue"
    /\ current_step = 0
    /\ result = NoResult
    /\ trace = NoTrace
    /\ call = NodeCall("-", InitialState, InitialHeap)
    /\ ret = NodeReturn(InitialState, InitialHeap, "reasoning", 0)
    /\ store = NoStore
    /\ served = NoneServed

NodeFrame == ServiceFrame /\ UNCHANGED <<store, served>>

\* _reasoning_node.node
ReasoningCall ==
    /\ pc = "nodes" /\ ret.next = "reasoning" /\ ret.calls < MaxCalls
    /\ \E branch \in {"text", "final", "except"} :
         LET state == ret.state
             heap == ret.heap
             updated_state == ModelCopy(state)
         IN  /\ call' = NodeCall("reasoning", state, heap)
             /\ IF branch = "except"
                THEN ret' = NodeReturn(
                        [updated_state EXCEPT !.final_answer = ErrorAnswer],
                        ListAppend(heap, updated_state.messages, "error"),
                        "action", ret.calls + 1)
                ELSE LET keep == heap[updated_state.sub_goals] # <<>>
                         heap1 == IF keep THEN heap ELSE NewList(heap, DefaultSubGoals)
                         goals == IF keep THEN updated_state.sub_goals ELSE Len(heap1)
                     IN  ret' = NodeReturn(
                            [updated_state EXCEPT
                                !.sub_goals = goals,
                                !.final_answer = IF branch = "final" THEN "answer" ELSE @],
                            ListAppend(heap1, updated_state.messages, "ai"),
                            "action", ret.calls + 1)
    /\ NodeFrame

\* _action_node
ActionCall ==
    /\ pc = "nodes" /\ ret.next = "action" /\ ret.calls < MaxCalls
    /\ \E branch \in IF Truthy(ret.state.final_answer) THEN {"skip"}
                     ELSE {"dispatch", "no_action"} :
         LET state == ret.state
             heap == ret.heap
             action_state == ModelCopy(state)
         IN  /\ call' = NodeCall("action", state, heap)
             /\ CASE branch = "skip" ->
                       ret' = NodeReturn(action_state, heap, "reflection", ret.calls + 1)
                  [] branch = "dispatch" ->
                       LET heap1 == NewList(heap, Append(heap[state.intermediate_results],
                                                         "entry"))
                           heap2 == NewList(heap1, Append(heap[state.tools_used], "tool"))
                       IN  ret' = NodeReturn(
                              [action_state EXCEPT !.intermediate_results = Len(heap1),
                                                   !.tools_used = Len(heap2)],
                              ListAppend(heap2, action_state.messages, "observation"),
                              "reflection", ret.calls + 1)
                  [] branch = "no_action" ->
                       ret' = NodeReturn(action_state,
                                         ListAppend(heap, action_state.messages, "no_action"),
                                         "reflection", ret.calls + 1)
    /\ NodeFrame

\* _reflection_node, followed by the conditional edge _should_continue
ReflectionCall ==
    /\ pc = "nodes" /\ ret.next = "reflection" /\ ret.calls < MaxCalls
    /\ \E branch \in IF Truthy(ret.state.final_answer) THEN {"skip"}
                     ELSE {"continue", "retry", "end", "except"} :
         LET state == ret.state
             heap == ret.heap
             updated_state == ModelCopy(state)
             noted == ListAppend(heap, updated_state.reflection_notes, "note")
         IN  /\ call' = NodeCall("reflection", state, heap)
             /\ CASE branch \in {"skip", "end"} ->
                       ret' = NodeReturn(updated_state, noted, "final_output",
                                         ret.calls + 1)
                  [] branch \in {"continue", "retry"} ->
                       ret' = NodeReturn(updated_state,
                                         ListAppend(noted, updated_state.sub_goals, "goal"),
                                         "reasoning", ret.calls + 1)
                  [] branch = "except" ->
                       ret' = NodeReturn(
                              [updated_state EXCEPT !.final_answer = ErrorAnswer],
                              ListAppend(ListAppend(heap, updated_state.messages, "error"),
                                         updated_state.reflection_notes, "note"),
                              "final_output", ret.calls + 1)
    /\ NodeFrame

\* _final_output_node
FinalOutputCall ==
    /\ pc = "nodes" /\ ret.next = "final_output" /\ ret.calls < MaxCalls
    /\ \E branch \in {"answer", "except"} :
         LET state == ret.state
             heap == ret.heap
             updated_state == ModelCopy(state)
         IN  /\ call' = NodeCall("final_output", state, heap)
             /\ ret' = NodeReturn(
                    [updated_state EXCEPT
                        !.final_answer = IF branch = "except" THEN ErrorAnswer
                                         ELSE IF Truthy(@) THEN @ ELSE "answer"],
                    ListAppend(heap, updated_state.messages,
                               IF branch = "except" THEN "error" ELSE "answer"),
                    "end", ret.calls + 1)
    /\ NodeFrame

NextNodes == ReasoningCall \/ ActionCall \/ ReflectionCall \/ FinalOutputCall

SpecNodes == InitNodes /\ [][NextNodes]_vars

\* C25: every node leaves the state object it received as it was: once the
\* node has returned, the lists of the state it was given (messages,
\* sub_goals, reflection_notes, tools_used, intermediate_results) hold what
\* they held when it was called
NodeLeavesReceivedStateUnchanged ==
    call.node # "-" => Contents(ret.heap, call.state) = call.before

(***************************************************************************)
(* Concurrent analyze calls that name a session.  Every await of           *)
(* _ensure_session is a point where another call may run: call[c] is the   *)
(* session id caller c passed and the place it has reached, ret[c] the     *)
(* record its analyze returned.                                            *)
(***************************************************************************)
Arrival(session_id) == [session_id |-> session_id, at |-> "get_session"]

InitEnsure ==
    /\ pc = "ensure"
    /\ messages = <<>>
    /\ tools_used = <<>>
    /\ intermediate_results = <<>>
    /\ plan = ""
    /\ sub_goals = <<>>
    /\ reflection_notes = <<>>
    /\ tool_output = "none"
    /\ final_answer = None
    /\ reflection_decision = "continue"
    /\ current_step = 0
    /\ result = NoResult
    /\ trace = NoTrace
    /\ call \in [Callers -> {Arrival(id) : id \in SessionIds}]
    /\ ret = [c \in Callers |-> Nothing]
    /\ store = NewStore("redis")
    /\ served = NoneServed

\* _ensure_session: await self.session_manager.get_session(session_id)
EnsureGetSession(c) ==
    /\ pc = "ensure" /\ call[c].at = "get_session"
    /\ LET got == GetSession(store, call[c].session_id)
       IN  /\ store' = got.store
           /\ call' = [call EXCEPT ![c].at = IF got.value # Nothing THEN "analyze"
                                             ELSE "create_session_with_id"]
    /\ UNCHANGED <<ret, served>>
    /\ ServiceFrame

\* _ensure_session: await self.session_manager.create_session_with_id(...);
\* its ValueError leaves analyze, which calls _ensure_session outside its try
EnsureCreateSession(c) ==
    /\ pc = "ensure" /\ call[c].at = "create_session_with_id"
    /\ IF SessionExists(store, call[c].session_id)
       THEN /\ call' = [call EXCEPT ![c].at = "raised"]
            /\ UNCHANGED store
       ELSE /\ call' = [call EXCEPT ![c].at = "analyze"]
            /\ store' = CreateSessionWithId(store, call[c].session_id)
    /\ UNCHANGED <<ret, served>>
    /\ ServiceFrame

\* the rest of analyze, from the cache lookup on, for a session that exists
EnsuredAnalyze(c) ==
    /\ pc = "ensure" /\ call[c].at = "analyze"
    /\ SessionExists(store, call[c].session_id)
    /\ \E query \in Queries, outcome \in RunOutcomes :
         LET done == Analyze(store, query, call[c].session_id, call[c].session_id,
                             outcome)
         IN  /\ store' = done.store
             /\ ret' = [ret EXCEPT ![c] = done.value]
    /\ call' = [call EXCEPT ![c].at = "returned"]
    /\ UNCHANGED served
    /\ ServiceFrame

NextEnsure ==
    \E c \in Callers : EnsureGetSession(c) \/ EnsureCreateSession(c) \/ EnsuredAnalyze(c)

SpecEnsure == InitEnsure /\ [][NextEnsure]_vars

\* C26: of the analyze calls issued concurrently with the id of a session
\* that does not exist yet, none fails with 'Session with ID ... already
\* exists', whatever the interleaving of their get_session and
\* create_session_with_id steps: a call past _ensure_session has not raised
ConcurrentEnsureNeverRaises ==
    \A c \in Callers : call[c].at # "raised"

\* C27: get_cached_analysis(id, h, cache_ttl) never returns an entry written
\* more than cache_ttl seconds ago, and an analyze call that repeats a query
\* more than cache_ttl = 300 seconds after its result was cached runs the
\* workflow again instead of answering from the cache
CacheEntryExpiresAfterCacheTtl ==
    [][(served'.ops # served.ops)
          => LET key == <<call'.session_id, call'.query_hash>>
             IN  /\ (/\ call'.op = "get_cached_analysis"
                     /\ ret' # Nothing
                     /\ served.written[key] # Nothing)
                       => store'.now - served.written[key].at <= call'.cache_ttl
                 /\ (/\ call'.op = "analyze"
                     /\ served.written[key] # Nothing
                     /\ store'.now - served.written[key].at > CacheTtl)
                       => ret'.metadata.cached = FALSE]_vars

\* C28: once delete_session(id) has completed, get_session(id) finds nothing
\* and get_cached_analysis(id, h, ttl) finds nothing for every query hash h;
\* an analyze call that names the session afterwards, with a query asked
\* before the deletion, runs the workflow instead of returning the result
\* cached before the deletion
DeletedSessionHasNoCache ==
    [][(served'.ops # served.ops)
          => /\ call'.op = "delete_session"
                  => /\ GetSession(store', call'.session_id).value = Nothing
                     /\ \A h \in Hashes :
                           GetCachedAnalysis(store', call'.session_id, h,
                                             CacheTtl).value = Nothing
             /\ (/\ call'.op = "analyze"
                 /\ served.deleted[<<call'.session_id, call'.query_hash>>])
                  => /\ ~ret'.metadata.cached
                     /\ served'.runs = served.runs + 1]_vars

\* C29: every entry analyze() writes to the cache has metadata.success true:
\* no cache entry holds a failed result, and no analyze call returns a failed
\* result marked cached
NoFailedResultCached ==
    /\ \A key \in Keys :
          CachedEntry(store, key) # Nothing
             => CachedEntry(store, key).metadata.success
    /\ (call.op = "analyze" /\ ret.metadata.cached) => ret.metadata.success

(***************************************************************************)
(* The ServiceManager singleton.  store holds the class attributes         *)
(* (_instance and who holds _lock), call[c] where caller c is in           *)
(* get_instance and how often it has called, ret[c] what its last call     *)
(* gave: an instance, or the RuntimeError of _initialize_services.         *)
(***************************************************************************)
MaxGets == 2

\* the services _initialize_services sets up, in its order
Stages == <<"embeddings", "vector_store", "chat_providers", "search_provider",
            "stock_providers">>

\* ServiceManager.__init__: nothing initialized
NewInstance == [stats |-> {}, initializations |-> 0]

\* _initialize_services with the constructor of stage number failing raising
\* (failing = 0: none raises): the stages before it are marked initialized
InitializeServices(instance, failing) ==
    [stats |-> {Stages[i] : i \in {j \in 1..Len(Stages) : failing = 0 \/ j < failing}},
     initializations |-> instance.initializations + 1]

Initialized(instance) == instance.stats = {Stages[i] : i \in 1..Len(Stages)}

Raised == [raised |-> "RuntimeError"]

InitSingleton ==
    /\ pc = "singleton"
    /\ messages = <<>>
    /\ tools_used = <<>>
    /\ intermediate_results = <<>>
    /\ plan = ""
    /\ sub_goals = <<>>
    /\ reflection_notes = <<>>
    /\ tool_output = "none"
    /\ final_answer = None
    /\ reflection_decision = "continue"
    /\ current_step = 0
    /\ result = NoResult
    /\ trace = NoTrace
    /\ call = [c \in Callers |-> [at |-> "start", gets |-> 0]]
    /\ ret = [c \in Callers |-> Nothing]
    /\ store = [instance |-> Nothing, lock |-> "-"]
    /\ served = NoneServed

\* get_instance: async with cls._lock
AcquireLock(c) ==
    /\ pc = "singleton"
    /\ call[c].at = "start" /\ call[c].gets < MaxGets
    /\ store.lock = "-"
    /\ store' = [store EXCEPT !.lock = c]
    /\ call' = [call EXCEPT ![c].at = "locked"]
    /\ UNCHANGED <<ret, served>>
    /\ ServiceFrame

\* get_instance with _instance None: cls._instance = cls(), then
\* await cls._instance._initialize_services(); its RuntimeError leaves
\* get_instance (and the lock) with _instance still assigned
CreateInstance(c) ==
    /\ pc = "singleton"
    /\ call[c].at = "locked" /\ store.instance = Nothing
    /\ \E failing \in 0..Len(Stages) :
         LET instance == InitializeServices(NewInstance, failing)
         IN  /\ store' = [instance |-> instance, lock |-> "-"]
             /\ ret' = [ret EXCEPT ![c] = IF failing = 0 THEN instance ELSE Raised]
    /\ call' = [call EXCEPT ![c] = [at |-> "start", gets |-> @.gets + 1]]
    /\ UNCHANGED served
    /\ ServiceFrame

\* get_instance with _instance set: return cls._instance
ReturnInstance(c) ==
    /\ pc = "singleton"
    /\ call[c].at = "locked" /\ store.instance # Nothing
    /\ store' = [store EXCEPT !.lock = "-"]
    /\ ret' = [ret EXCEPT ![c] = store.instance]
    /\ call' = [call EXCEPT ![c] = [at |-> "start", gets |-> @.gets + 1]]
    /\ UNCHANGED served
    /\ ServiceFrame

NextSingleton ==
    \E c \in Callers : AcquireLock(c) \/ CreateInstance(c) \/ ReturnInstance(c)

SpecSingleton == InitSingleton /\ [][NextSingleton]_vars

\* C30: every instance get_instance() returns has completed
\* _initialize_services, whoever calls and in whatever order; an instance is
\* initialized at most once; after an initialization that raised, a later
\* get_instance() does not hand out the instance left uninitialized
ReturnedInstanceIsInitialized ==
    /\ \A c \in Callers :
          (ret[c] # Nothing /\ ret[c] # Raised) => Initialized(ret[c])
    /\ store.instance # Nothing => store.instance.initializations <= 1

====
